---- MODULE Spec2Model ----
(***************************************************************************)
(* The Playwright verification scripts of Quatch-Mobile as one state       *)
(* machine.  Every script is a straight-line list of browser calls; the    *)
(* model keeps, per script, the list of its statements with the control    *)
(* flow Python gives them (if/else, try/except/finally, an exception       *)
(* leaving the function), and one action per kind of call.  Every          *)
(* Playwright call either returns or raises.                               *)
(***************************************************************************)
EXTENDS Integers, Sequences, FiniteSets, TLC

VARIABLES
    script,      \* the script being run
    pc,          \* the statement about to run (0: the function body is over)
    playwright,  \* "running" inside `with sync_playwright()`, then "stopped"
    browser,     \* "none", "open" (launch returned) or "closed" (close called)
    closes,      \* number of browser.close() calls made
    raised,      \* the exception in flight / the one that left the function
    caught,      \* the exception bound to `e` by the last except clause entered
    clock,       \* wall-clock milliseconds consumed by sleeps and captures
    trace        \* the calls made so far, in order, with their outcomes

vars == <<script, pc, playwright, browser, closes, raised, caught, clock, trace>>

----------------------------------------------------------------------------
(* Bounds of the environment (not of the scripts).                         *)

\* a capture takes 0 .. MaxCaptureSteps quanta of CaptureQuantum ms
MaxCaptureSteps == 2
CaptureQuantum == 1000
\* locator.count() answers 0 .. MaxElements
MaxElements == 2

CaptureDurations == { k * CaptureQuantum : k \in 0..MaxCaptureSteps }

----------------------------------------------------------------------------
(* Exceptions.                                                             *)

NoErr == [kind |-> "none", step |-> 0]
Err(kind, at) == [kind |-> kind, step |-> at]

\* One statement: the call, its argument (selector, path or message), the
\* milliseconds of a sleep, the statement that follows, the other branch of
\* an if, the first statement of the enclosing try's except clause (0: the
\* statement is in no try body) and of its finally clause (0: none).
St(op, arg, ms, next, alt, catch, fin) ==
    [op |-> op, arg |-> arg, ms |-> ms, next |-> next, alt |-> alt,
     catch |-> catch, fin |-> fin]

\* a statement outside any try, with no branch
Plain(op, arg, next) == St(op, arg, 0, next, 0, 0, 0)
PlainSleep(op, ms, next) == St(op, "", ms, next, 0, 0, 0)

----------------------------------------------------------------------------
(* The scripts.                                                            *)

\* the deck clicked before the page is known to be ready
verify_chaos_shuffle_click_first == <<
    Plain("launch", "chromium", 2),
    Plain("new_page", "", 3),
    Plain("goto", "http://localhost:3000/Quatch-Mobile/", 4),
    Plain("click", "#slot-deck", 5),
    Plain("wait_for_selector", "#slot-deck", 6),
    PlainSleep("sleep", 1200, 7),
    Plain("screenshot", "verification/shuffle_phase_1_split.png", 8),
    PlainSleep("sleep", 1600, 9),
    Plain("screenshot", "verification/shuffle_phase_2_merge.png", 10),
    PlainSleep("sleep", 1400, 11),
    Plain("screenshot", "verification/shuffle_phase_3_return.png", 12),
    Plain("close", "", 0) >>

verify_chaos_shuffle == <<
    Plain("launch", "chromium", 2),
    Plain("new_page", "", 3),
    Plain("goto", "http://localhost:3000/Quatch-Mobile/", 4),
    Plain("wait_for_selector", "#slot-deck", 5),
    Plain("click", "#slot-deck", 6),
    PlainSleep("sleep", 1200, 7),
    Plain("screenshot", "verification/shuffle_phase_1_split.png", 8),
    PlainSleep("sleep", 1600, 9),
    Plain("screenshot", "verification/shuffle_phase_2_merge.png", 10),
    PlainSleep("sleep", 1400, 11),
    Plain("screenshot", "verification/shuffle_phase_3_return.png", 12),
    Plain("close", "", 0) >>

\* a statement of a try body or of its except clause
Try(op, arg, ms, next, catch, fin) == St(op, arg, ms, next, 0, catch, fin)

verify_drag_layout == <<
    Plain("launch", "chromium", 2),
    Plain("new_context", "1280x720", 3),
    Plain("new_page", "", 4),
    \* try:
    Try("goto", "http://127.0.0.1:5173/Quatch-Mobile/", 0, 5, 11, 13),
    Try("wait_for_selector", "button:has-text('Start Game')", 0, 6, 11, 13),
    Try("click", "button:has-text('Start Game')", 0, 7, 11, 13),
    Try("wait_for_selector", "#player-hand-container", 0, 8, 11, 13),
    Try("sleep", "", 2000, 9, 11, 13),
    Try("screenshot", "verification/layout_check.png", 0, 10, 11, 13),
    Try("print", "Screenshot saved to verification/layout_check.png", 0, 13, 11, 13),
    \* except Exception as e:
    Try("print", "Error during verification: {e}", 0, 12, 0, 13),
    Try("screenshot", "verification/error_state.png", 0, 13, 0, 13),
    \* finally:
    Plain("close", "", 0) >>

verify_layout == <<
    Plain("launch", "chromium", 2),
    Plain("new_page", "", 3),
    Plain("print", "Navigating to game...", 4),
    \* try: ... except Exception as e:
    Try("goto", "http://localhost:3000/Quatch-Mobile/", 0, 7, 5, 0),
    Plain("print", "Error navigating: {e}", 6),
    Plain("goto", "http://localhost:3000/Quatch-Mobile/", 7),
    Plain("print", "Waiting for deck...", 8),
    Plain("wait_for_selector", "#slot-deck", 9),
    Plain("print", "Clicking shuffle...", 10),
    Plain("click", "#slot-deck", 11),
    PlainSleep("wait_for_timeout", 1000, 12),
    Plain("print", "Clicking deal...", 13),
    Plain("click", "#slot-deck", 14),
    Plain("print", "Waiting for animations...", 15),
    PlainSleep("wait_for_timeout", 5000, 16),
    Plain("print", "Taking screenshot...", 17),
    \* if slot0.count() > 0: ... else: ...
    St("count", "#player-table-slot-0", 0, 18, 20, 0, 0),
    Plain("locator_screenshot", "/home/jules/verification/player_slot_0.png", 19),
    Plain("print", "Screenshot of slot 0 saved.", 21),
    Plain("print", "Slot 0 not found!", 21),
    Plain("screenshot", "/home/jules/verification/full_game.png", 22),
    Plain("close", "", 23),
    Plain("print", "Done.", 0) >>

verify_spacing == <<
    Plain("launch", "chromium", 2),
    Plain("new_context", "414x896", 3),
    Plain("new_page", "", 4),
    Plain("print", "Navigating...", 5),
    Plain("goto", "http://localhost:3001/Quatch-Mobile/", 6),
    Plain("wait_for_selector", "#slot-deck", 7),
    Plain("print", "Shuffling...", 8),
    Plain("click", "#slot-deck", 9),
    PlainSleep("sleep", 1000, 10),
    Plain("print", "Dealing...", 11),
    Plain("click", "#slot-deck", 12),
    PlainSleep("sleep", 3000, 13),
    Plain("print", "Taking screenshot...", 14),
    Plain("screenshot", "layout_spacing_final.png", 15),
    Plain("print", "Screenshot saved to layout_spacing_final.png", 16),
    Plain("close", "", 0) >>

verify_card_back == <<
    Plain("launch", "chromium", 2),
    Plain("new_page", "", 3),
    Plain("print", "Navigating to app...", 4),
    Plain("goto", "http://localhost:3000/Quatch-Mobile/", 5),
    Plain("print", "Waiting for deck...", 6),
    Plain("wait_for_selector", "#slot-deck", 7),
    Plain("print", "Taking screenshot...", 8),
    Plain("screenshot", "verification/card_back_verification.png", 9),
    Plain("locator_screenshot", "verification/deck_only.png", 10),
    Plain("close", "", 11),
    Plain("print", "Done.", 0) >>

verify_scale == <<
    Plain("launch", "chromium", 2),
    Plain("new_context", "412x915", 3),
    Plain("new_page", "", 4),
    Plain("goto", "http://localhost:3000/Quatch-Mobile/", 5),
    Plain("wait_for_selector", ".player-area", 6),
    Plain("screenshot", "verification/verify_s24_scale.png", 7),
    Plain("close", "", 0) >>

verify_mobile_scale == <<
    Plain("launch", "chromium", 2),
    Plain("new_context", "390x844", 3),
    Plain("new_page", "", 4),
    Plain("print", "Navigating to page...", 5),
    Plain("goto", "http://localhost:3000/Quatch-Mobile/", 6),
    Plain("print", "Waiting for game board...", 7),
    Plain("wait_for_selector", ".game-board-bg", 8),
    Plain("screenshot", "verification/mobile_guide_layout.png", 9),
    Plain("print", "Screenshot saved to verification/mobile_guide_layout.png", 10),
    \* box = deck.bounding_box(); if box: ... else: ...
    St("bounding_box", "#slot-deck", 0, 11, 15, 0, 0),
    Plain("print", "Deck Dimensions", 12),
    \* if abs(box['width'] - expected_width) < 2: ... else: ...
    St("compare_width", "19vw", 0, 13, 14, 0, 0),
    Plain("print", "SUCCESS: Card width matches 19vw logic", 16),
    Plain("print", "WARNING: Card width does not match expected", 16),
    Plain("print", "ERROR: Could not find deck slot", 16),
    Plain("close", "", 0) >>

verify_drag_placeholder == <<
    Plain("launch", "chromium", 2),
    Plain("new_page", "", 3),
    Plain("print", "Verification script placeholder", 4),
    Plain("close", "", 0) >>

Scripts == {"verify_chaos_shuffle", "verify_drag_layout", "verify_layout",
            "verify_spacing", "verify_card_back", "verify_scale",
            "verify_mobile_scale", "verify_drag_placeholder"}

Prog(s) ==
    CASE s = "verify_chaos_shuffle" -> verify_chaos_shuffle
      [] s = "verify_drag_layout" -> verify_drag_layout
      [] s = "verify_layout" -> verify_layout
      [] s = "verify_spacing" -> verify_spacing
      [] s = "verify_card_back" -> verify_card_back
      [] s = "verify_scale" -> verify_scale
      [] s = "verify_mobile_scale" -> verify_mobile_scale
      [] s = "verify_drag_placeholder" -> verify_drag_placeholder

\* the messages that interpolate the caught exception
ErrorMessages == {"Error during verification: {e}", "Error navigating: {e}"}

----------------------------------------------------------------------------
(* The interpreter: Python's control flow over a script's statements.      *)

Running == playwright = "running" /\ pc # 0
Cur == Prog(script)[pc]
At(op) == Running /\ Cur.op = op

\* one entry of the trace: the call, whether it returned, what it raised (or,
\* for a print, the exception it shows), its statement, the time it took,
\* the clock when it ended and the value it returned (count, box)
Ev(ok, e, ms, val) ==
    [op |-> Cur.op, arg |-> Cur.arg, ok |-> ok, err |-> e, step |-> pc,
     ms |-> ms, t |-> clock + ms, val |-> val]

\* the call returned `val` after `ms`: log it and go on
ReturnVal(ms, val, target) ==
    /\ trace' = Append(trace, Ev(TRUE, NoErr, ms, val))
    /\ clock' = clock + ms
    /\ pc' = target
    /\ UNCHANGED <<raised, caught>>

Return(ms, target) == ReturnVal(ms, 0, target)

\* every call wrapped in `try: ... except Exception: pass`: the run goes on
Raise_Swallow(kind) ==
    LET e == Err(kind, pc) IN
    /\ trace' = Append(trace, Ev(FALSE, e, 0, 0))
    /\ clock' = clock
    /\ pc' = Cur.next /\ caught' = e /\ raised' = raised

\* an except clause that matches nothing the call raises
Raise_NoCatch(kind) ==
    LET e == Err(kind, pc) IN
    /\ trace' = Append(trace, Ev(FALSE, e, 0, 0))
    /\ clock' = clock
    /\ IF Cur.fin # 0
         THEN pc' = Cur.fin /\ raised' = e /\ caught' = caught
         ELSE pc' = 0 /\ raised' = e /\ caught' = caught

\* the call raised `kind`: the innermost except clause catches it and binds
\* it; failing that the finally clause runs with the exception pending;
\* failing that the exception leaves the function
Raise(kind) ==
    LET e == Err(kind, pc) IN
    /\ trace' = Append(trace, Ev(FALSE, e, 0, 0))
    /\ clock' = clock
    /\ IF Cur.catch # 0
         THEN pc' = Cur.catch /\ caught' = e /\ raised' = raised
         ELSE IF Cur.fin # 0
           THEN pc' = Cur.fin /\ raised' = e /\ caught' = caught
           ELSE pc' = 0 /\ raised' = e /\ caught' = caught

Init ==
    /\ script \in Scripts
    /\ pc = 1
    /\ playwright = "running"
    /\ browser = "none"
    /\ closes = 0
    /\ raised = NoErr
    /\ caught = NoErr
    /\ clock = 0
    /\ trace = << >>

\* p.chromium.launch(headless=True)
Launch ==
    /\ At("launch")
    /\ \/ Return(0, Cur.next) /\ browser' = "open"
       \/ Raise("LaunchError") /\ browser' = browser
    /\ UNCHANGED <<script, playwright, closes>>

\* browser.new_context(viewport=...)
NewContext ==
    /\ At("new_context")
    /\ \/ Return(0, Cur.next)
       \/ Raise("ContextError")
    /\ UNCHANGED <<script, playwright, browser, closes>>

\* browser.new_page() / context.new_page()
NewPage ==
    /\ At("new_page")
    /\ \/ Return(0, Cur.next)
       \/ Raise("ContextError")
    /\ UNCHANGED <<script, playwright, browser, closes>>

\* page.goto(url)
Goto ==
    /\ At("goto")
    /\ \/ Return(0, Cur.next)
       \/ Raise("NavigationError")
    /\ UNCHANGED <<script, playwright, browser, closes>>

\* page.wait_for_selector(sel) / locator.wait_for(state="visible")
WaitForSelector ==
    /\ At("wait_for_selector")
    /\ \/ Return(0, Cur.next)
       \/ Raise("ReadinessTimeout")
    /\ UNCHANGED <<script, playwright, browser, closes>>

\* page.click(sel) / locator.click()
Click ==
    /\ At("click")
    /\ \/ Return(0, Cur.next)
       \/ Raise("ElementNotInteractable")
    /\ UNCHANGED <<script, playwright, browser, closes>>

\* time.sleep(seconds): always returns, after the time given
Sleep ==
    /\ At("sleep")
    /\ Return(Cur.ms, Cur.next)
    /\ UNCHANGED <<script, playwright, browser, closes>>

\* page.wait_for_timeout(ms): a Playwright call, which can raise
WaitForTimeout ==
    /\ At("wait_for_timeout")
    /\ \/ Return(Cur.ms, Cur.next)
       \/ Raise("TargetClosed")
    /\ UNCHANGED <<script, playwright, browser, closes>>

\* page.screenshot(path=...): takes some time, which the script does not know
Screenshot ==
    /\ At("screenshot")
    /\ \/ \E d \in CaptureDurations : Return(d, Cur.next)
       \/ Raise("CaptureError")
    /\ UNCHANGED <<script, playwright, browser, closes>>

\* locator.screenshot(path=...): raises when the locator resolves to nothing
LocatorScreenshot ==
    /\ At("locator_screenshot")
    /\ \/ \E d \in CaptureDurations : Return(d, Cur.next)
       \/ Raise("ElementNotFound")
    /\ UNCHANGED <<script, playwright, browser, closes>>

\* `if slot0.count() >= 0`: the scoped capture taken whatever count() says
Count_Always ==
    /\ At("count")
    /\ \/ \E n \in 0..MaxElements : ReturnVal(0, n, Cur.next)
       \/ Raise("TargetClosed")
    /\ UNCHANGED <<script, playwright, browser, closes>>

\* if locator.count() > 0: ... else: ...
Count ==
    /\ At("count")
    /\ \/ \E n \in 0..MaxElements :
            ReturnVal(0, n, IF n > 0 THEN Cur.next ELSE Cur.alt)
       \/ Raise("TargetClosed")
    /\ UNCHANGED <<script, playwright, browser, closes>>

\* box = locator.bounding_box(); if box: ... else: ...
BoundingBox ==
    /\ At("bounding_box")
    /\ \/ \E box \in BOOLEAN :
            ReturnVal(0, IF box THEN 1 ELSE 0, IF box THEN Cur.next ELSE Cur.alt)
       \/ Raise("TargetClosed")
    /\ UNCHANGED <<script, playwright, browser, closes>>

\* if abs(box['width'] - expected_width) < 2: ... else: ...
CompareWidth ==
    /\ At("compare_width")
    /\ \E within \in BOOLEAN :
          /\ trace' = Append(trace, Ev(within, NoErr, 0, 0))
          /\ pc' = IF within THEN Cur.next ELSE Cur.alt
    /\ UNCHANGED <<script, playwright, browser, closes, raised, caught, clock>>

\* print(message); a message with {e} shows the exception the clause caught
PrintMsg ==
    /\ At("print")
    /\ trace' = Append(trace,
          Ev(TRUE, IF Cur.arg \in ErrorMessages THEN caught ELSE NoErr, 0, 0))
    /\ pc' = Cur.next
    /\ UNCHANGED <<script, playwright, browser, closes, raised, caught, clock>>

\* browser.close(): taken to return always; the call is counted either way
Close ==
    /\ At("close")
    /\ Return(0, Cur.next)
    /\ browser' = "closed"
    /\ closes' = closes + 1
    /\ UNCHANGED <<script, playwright>>

\* leaving `with sync_playwright()`: the driver stops, whether the body
\* returned or an exception is leaving it; no browser.close() is called
SyncPlaywrightExit ==
    /\ playwright = "running"
    /\ pc = 0
    /\ playwright' = "stopped"
    /\ UNCHANGED <<script, pc, browser, closes, raised, caught, clock, trace>>

Next ==
    \/ Launch
    \/ NewContext
    \/ NewPage
    \/ Goto
    \/ WaitForSelector
    \/ Click
    \/ Sleep
    \/ WaitForTimeout
    \/ Screenshot
    \/ LocatorScreenshot
    \/ Count
    \/ BoundingBox
    \/ CompareWidth
    \/ PrintMsg
    \/ Close
    \/ SyncPlaywrightExit

Spec == Init /\ [][Next]_vars

Done == playwright = "stopped"

TypeOK ==
    /\ script \in Scripts
    /\ pc \in 0..Len(Prog(script))
    /\ playwright \in {"running", "stopped"}
    /\ browser \in {"none", "open", "closed"}
    /\ closes \in 0..1

----------------------------------------------------------------------------
(* Reading the trace.                                                      *)

Idx == 1..Len(trace)
BodyOver == pc = 0

\* the captures that are not the except clause's diagnostic capture
ErrorPath == "verification/error_state.png"
IsCapture(k) == trace[k].op \in {"screenshot", "locator_screenshot"}
IsRegularCapture(k) == IsCapture(k) /\ trace[k].arg # ErrorPath
IsDiagCapture(k) == trace[k].op = "screenshot" /\ trace[k].arg = ErrorPath
IsWait(k) == trace[k].op \in {"sleep", "wait_for_timeout"}
IsReady(k) == trace[k].op = "wait_for_selector"
IsClick(k) == trace[k].op = "click"
IsGoto(k) == trace[k].op = "goto"
Failed(k) == trace[k].op # "compare_width" /\ ~trace[k].ok

\* the calls made against the browser session
IsSessionCall(k) == trace[k].op \notin {"print", "sleep", "compare_width", "launch"}

NavAttempts == Cardinality({k \in Idx : IsGoto(k)})
HasClick(s) == \E i \in 1..Len(Prog(s)) : Prog(s)[i].op = "click"

----------------------------------------------------------------------------
(* The shuffle animation, as verify_chaos_shuffle.py states it.            *)

\* the durations the comments give: split, merge, return
NominalDuration == <<1600, 1300, 1000>>
PhaseCapture == << "verification/shuffle_phase_1_split.png",
                   "verification/shuffle_phase_2_merge.png",
                   "verification/shuffle_phase_3_return.png" >>
Phases == 1..3

RECURSIVE SumTo(_, _)
SumTo(f, n) == IF n = 0 THEN 0 ELSE f[n] + SumTo(f, n - 1)

CumulativeOffset(i) == SumTo(NominalDuration, i - 1)

\* the statement that captures phase i, and the sleep issued for it
PhaseCaptureStep(i) ==
    CHOOSE n \in 1..Len(verify_chaos_shuffle) :
        verify_chaos_shuffle[n].arg = PhaseCapture[i]
PhaseWaitStep(i) == PhaseCaptureStep(i) - 1

\* the offset from the click at which the script means to capture phase i:
\* the sleeps it issues up to that capture
TargetOffset(i) ==
    SumTo([n \in 1..Len(verify_chaos_shuffle) |-> verify_chaos_shuffle[n].ms],
          PhaseCaptureStep(i))

\* the sum of the waits issued before trace entry k
RECURSIVE WaitedBefore(_)
WaitedBefore(k) ==
    IF k <= 1 THEN 0
    ELSE WaitedBefore(k - 1) + (IF IsWait(k - 1) THEN trace[k - 1].ms ELSE 0)

\* the clock at the (first) successful click
ClickTime ==
    LET ks == {k \in Idx : IsClick(k) /\ trace[k].ok}
    IN  trace[CHOOSE k \in ks : \A j \in ks : k <= j].t

\* wall-clock time since the click when trace entry k was issued
ElapsedAtIssue(k) == trace[k].t - trace[k].ms - ClickTime

----------------------------------------------------------------------------
(* C1. Teardown: when a run is over, a browser that was launched has been  *)
(* closed by exactly one browser.close() call, whatever the steps did.     *)
C1_TeardownExactlyOnce ==
    Done => \/ browser = "none" /\ closes = 0
            \/ browser = "closed" /\ closes = 1

(* C2. In the shuffle run every phase capture is taken, counting the waits *)
(* issued since the click, inside the window of its phase:                 *)
(* cumulativeOffset[i] <= t < cumulativeOffset[i] + nominalDuration[i].    *)
C2_CaptureInsidePhaseWindow ==
    script = "verify_chaos_shuffle" =>
        \A k \in Idx : \A i \in Phases :
            (trace[k].op = "screenshot" /\ trace[k].arg = PhaseCapture[i]) =>
                /\ CumulativeOffset(i) <= WaitedBefore(k)
                /\ WaitedBefore(k) < CumulativeOffset(i) + NominalDuration[i]

(* C4. Drift correction in the shuffle run: the wait issued for a phase is *)
(* never negative, and it is zero when the time elapsed since the click    *)
(* has already reached the phase's target offset; every phase is still     *)
(* captured once, in declared order.                                       *)
C4_ZeroWaitWhenLate ==
    script = "verify_chaos_shuffle" =>
        /\ \A k \in Idx : \A i \in Phases :
              (IsWait(k) /\ trace[k].step = PhaseWaitStep(i)) =>
                  /\ trace[k].ms >= 0
                  /\ ElapsedAtIssue(k) >= TargetOffset(i) => trace[k].ms = 0
        /\ \A i \in Phases :
              Cardinality({k \in Idx : trace[k].arg = PhaseCapture[i]}) <= 1
        /\ \A k \in Idx : \A i, j \in Phases :
              (i < j /\ trace[k].arg = PhaseCapture[j]) =>
                  \E h \in 1..(k - 1) : trace[h].arg = PhaseCapture[i]

(* C5. Readiness gate abort: the readiness waits are made in the order     *)
(* written, and once one of them has timed out the run makes no further    *)
(* readiness wait, click, phase wait or regular capture.                   *)
C5_ReadinessAbort ==
    \A k \in Idx : \A j \in Idx :
        (k < j /\ IsReady(k)) =>
            /\ IsReady(j) => trace[k].step < trace[j].step
            /\ Failed(k) =>
                  ~(IsReady(j) \/ IsClick(j) \/ IsWait(j) \/ IsRegularCapture(j))

\* a run whose second readiness wait timed out has ended: the diagnostic
\* capture followed it and nothing else did
C5_Witness ==
    /\ Done
    /\ script = "verify_drag_layout"
    /\ \E k \in Idx : \E j \in Idx :
          /\ IsReady(k) /\ Failed(k) /\ trace[k].step = 7
          /\ k < j /\ IsDiagCapture(j)

\* the last navigation attempt made
LastGoto == CHOOSE k \in Idx : IsGoto(k) /\ \A j \in Idx : IsGoto(j) => j <= k

(* C6 as stated. Every run retries a failed navigation exactly once: at    *)
(* most two attempts, the second only after the first failed; a run whose  *)
(* body is over after a failed first attempt has made the second; after a  *)
(* failed last attempt the NavigationError leaves the run and no readiness *)
(* wait, click or capture is made; after a successful attempt the next     *)
(* browser call is the readiness wait.                                     *)
C6_RetryOnceEveryRun ==
    /\ NavAttempts <= 2
    /\ \A k \in Idx : \A j \in Idx :
          (k < j /\ IsGoto(k) /\ IsGoto(j)) => Failed(k)
    /\ (BodyOver /\ \E k \in Idx : IsGoto(k) /\ Failed(k)) => NavAttempts = 2
    /\ (BodyOver /\ NavAttempts > 0 /\ Failed(LastGoto)) =>
          /\ raised = trace[LastGoto].err
          /\ \A j \in Idx : ~(IsReady(j) \/ IsClick(j) \/ IsCapture(j))
    /\ \A k \in Idx : \A j \in Idx :
          (IsGoto(k) /\ trace[k].ok /\ k < j /\ IsSessionCall(j)
              /\ \A h \in (k + 1)..(j - 1) : ~IsSessionCall(h)) => IsReady(j)

(* C6 as amended. Only verify_layout.py retries a failed navigation, once; *)
(* every other script makes one attempt.  In every run at most two         *)
(* attempts are made, the second only after the first failed.  After a     *)
(* failed last attempt no readiness wait, click, phase wait or regular     *)
(* capture is made, and the NavigationError leaves the run, except in      *)
(* verify_drag_layout.py, whose except clause catches and prints it.       *)
(* After a successful attempt the next browser call is the readiness wait. *)
C6_RetryOnlyInLayoutRun ==
    /\ NavAttempts <= 2
    /\ \A k \in Idx : \A j \in Idx :
          (k < j /\ IsGoto(k) /\ IsGoto(j)) => Failed(k)
    /\ (BodyOver /\ \E k \in Idx : IsGoto(k) /\ Failed(k)) =>
          (NavAttempts = 2 <=> script = "verify_layout")
    /\ (BodyOver /\ NavAttempts > 0 /\ Failed(LastGoto)) =>
          /\ \A j \in Idx :
                ~(IsReady(j) \/ IsClick(j) \/ IsWait(j) \/ IsRegularCapture(j))
          /\ IF script = "verify_drag_layout"
               THEN /\ caught = trace[LastGoto].err
                    /\ \E j \in Idx : /\ trace[j].op = "print"
                                      /\ trace[j].err = trace[LastGoto].err
               ELSE raised = trace[LastGoto].err
    /\ \A k \in Idx : \A j \in Idx :
          (IsGoto(k) /\ trace[k].ok /\ k < j /\ IsSessionCall(j)
              /\ \A h \in (k + 1)..(j - 1) : ~IsSessionCall(h)) => IsReady(j)

\* the layout run failed to navigate, tried again, got through and went on
\* to the readiness wait
C6_Witness ==
    /\ script = "verify_layout"
    /\ NavAttempts = 2
    /\ trace[LastGoto].ok
    /\ \E j \in Idx : IsReady(j)

\* the first call that raised
FirstFailure == CHOOSE k \in Idx : Failed(k) /\ \A j \in Idx : Failed(j) => k <= j

(* C7. Fault reporter of verify_drag_layout.py: after an error of a        *)
(* readiness wait, the click or the capture the run makes exactly one      *)
(* diagnostic capture and closes the browser, and the error the run ends   *)
(* with, if any, is the original one, never the failure of the diagnostic  *)
(* capture.                                                                *)
C7_DiagnosticNeverMasks ==
    (script = "verify_drag_layout" /\ BodyOver /\ browser # "none"
        /\ \E k \in Idx : Failed(k) /\ trace[k].step \in 5..9) =>
        /\ Cardinality({j \in Idx : IsDiagCapture(j)}) = 1
        /\ closes = 1
        /\ raised \in {NoErr, trace[FirstFailure].err}

C9_Ordering ==
    \A j \in Idx :
        /\ IsReady(j) => \E k \in 1..(j - 1) : IsGoto(k) /\ trace[k].ok
        /\ IsClick(j) => \E k \in 1..(j - 1) : IsReady(k) /\ trace[k].ok
        /\ (IsWait(j) \/ (HasClick(script) /\ IsRegularCapture(j))) =>
              \E k \in 1..(j - 1) : IsClick(k) /\ trace[k].ok
        /\ \A a, b \in Phases :
              (a < b /\ trace[j].arg = PhaseCapture[b]) =>
                  \E k \in 1..(j - 1) :
                      trace[k].arg = PhaseCapture[a] /\ trace[k].ok
        /\ IsSessionCall(j) => \A k \in 1..(j - 1) : trace[k].op # "close"
        /\ (browser = "closed" /\ Running) => Cur.op = "print"

\* the shuffle run has taken its three captures and closed the browser
C9_Witness ==
    /\ Done
    /\ script = "verify_chaos_shuffle"
    /\ browser = "closed"
    /\ \A i \in Phases : \E k \in Idx : trace[k].arg = PhaseCapture[i] /\ trace[k].ok

\* verify_layout.py: the scoped capture of the player slot and the backup
SlotPath == "/home/jules/verification/player_slot_0.png"
BackupPath == "/home/jules/verification/full_game.png"

====
